---- MODULE Spec2Model ----
(***************************************************************************)
(* A model of chat_export.py (the English variant; the Chinese variant     *)
(* differs in display strings only).  The program locates the editor's     *)
(* key-value databases, reads the composerData records from a scratch copy *)
(* of each, normalizes the conversation of every record into a session and *)
(* renders the sessions as HTML.                                           *)
(*                                                                         *)
(* Python values are modelled as records [k, s, n]: k is the type, s the   *)
(* characters of a str (a sequence of one-character strings) and n the     *)
(* number of an int or bool, or the length of a list.  "absent" is a key   *)
(* that the dict does not hold.                                            *)
(***************************************************************************)
EXTENDS Integers, Sequences, FiniteSets, TLC

VARIABLES
    pc,                 \* position of the program
    argv,               \* main: the command line argument
    disk0,              \* the database files as they are when the program starts
    storage,            \* the workspaceStorage directory: ok, missing or unreadable
    environ,            \* os.environ: what CURSOR_WORKSPACE_ID holds
    storage_json,       \* workspaceStorage/storage.json: what reading it gives
    cwd_dirs,           \* the directories from the working directory up to below the root
    current_workspace,  \* __init__: the identifier _get_current_workspace returned
    fs,                 \* the files: databases and scratch duplicates, by path
    output_dir,         \* __init__: whether the report directory was created
    db_paths,           \* __init__/_find_db_paths: the candidate list
    todo,               \* _find_db_paths: the workspace directories still to check
    conn,               \* the `conn` local: the path it is open on, "closed" or "unbound"
    idx,                \* read_chat_history: the index of the candidate in hand
    temp_db_path,       \* the scratch path of the candidate in hand
    nrec,               \* read_chat_history: records processed so far
    removes,            \* read_chat_history: os.remove calls made for the candidate in hand
    outcome,            \* read_chat_history: what happened last to the candidate in hand
    session,            \* read_chat_history: the session being built
    current_role,       \* read_chat_history: the last-role cursor
    entry,              \* read_chat_history: the conversation entry just processed
    nproc,              \* read_chat_history: entries of the conversation processed so far
    all_chat_sessions,  \* read_chat_history: the list it returns
    output_file,        \* the export method's return value
    written,            \* the output files written: name and content
    printed,            \* main: the outcome it reports
    exit_status         \* the status the process exits with

\* the surroundings of the run, and the identifier __init__ derives from them
envVars == <<disk0, storage, environ, storage_json, cwd_dirs, current_workspace>>
fileVars == <<fs, conn>>
findVars == <<output_dir, db_paths, todo>>
readVars == <<idx, temp_db_path, nrec, removes, outcome, all_chat_sessions>>
normVars == <<session, current_role, entry, nproc>>
mainVars == <<argv, output_file, written, printed, exit_status>>

vars == <<pc, envVars, fileVars, findVars, readVars, normVars, mainVars>>

----------------------------------------------------------------------------
(* Bounds *)

\* longest conversation (entries of one record) that is normalized entry by entry
MaxConv == 3

\* workspace directories under workspaceStorage, beside the images directory
NumWorkspaces == 2

\* most records read in one run, over all the databases
MaxRecords == 3

\* most sessions handed to an export method on its own
MaxRenderSessions == 2

\* most lines of a message text handed to process_code_blocks
MaxLines == 3

\* most directories between the working directory and the root
MaxDepth == 2

----------------------------------------------------------------------------
(* Python values *)

None == [k |-> "none", s |-> <<>>, n |-> 0]
Absent == [k |-> "absent", s |-> <<>>, n |-> 0]
PyStr(chars) == [k |-> "str", s |-> chars, n |-> 0]
PyInt(i) == [k |-> "int", s |-> <<>>, n |-> i]
PyBool(b) == [k |-> "bool", s |-> <<>>, n |-> IF b THEN 1 ELSE 0]
PyList(len) == [k |-> "list", s |-> <<>>, n |-> len]

\* bool(v)
Truthy(v) ==
    CASE v.k = "str" -> v.s # <<>>
      [] v.k \in {"int", "bool", "list"} -> v.n # 0
      [] OTHER -> FALSE

\* a == b  (True == 1 and False == 0 in Python)
PyEq(a, b) ==
    IF a.k \in {"int", "bool"} /\ b.k \in {"int", "bool"}
    THEN a.n = b.n
    ELSE a = b

\* a or b
Or(a, b) == IF Truthy(a) THEN a ELSE b

\* d.get(key): None when the key is absent
Get(d, key) == IF d[key].k = "absent" THEN None ELSE d[key]

\* d.get(key, default)
GetDefault(d, key, default) == IF d[key].k = "absent" THEN default ELSE d[key]

Whitespace == {" ", "\t", "\n", "\r"}

RECURSIVE LStrip(_)
LStrip(chars) ==
    IF chars # <<>> /\ Head(chars) \in Whitespace THEN LStrip(Tail(chars)) ELSE chars

RECURSIVE RStrip(_)
RStrip(chars) ==
    IF chars # <<>> /\ chars[Len(chars)] \in Whitespace
    THEN RStrip(SubSeq(chars, 1, Len(chars) - 1))
    ELSE chars

\* str.strip()
Strip(chars) == RStrip(LStrip(chars))

\* sub in chars
Contains(chars, sub) ==
    \E i \in 1..(Len(chars) - Len(sub) + 1) : SubSeq(chars, i, i + Len(sub) - 1) = sub

----------------------------------------------------------------------------
(* Literals of the program *)

S_1 == <<"1">>
S_2 == <<"2">>
S_user == <<"u", "s", "e", "r">>
S_assistant == <<"a", "s", "s", "i", "s", "t", "a", "n", "t">>
S_system == <<"s", "y", "s", "t", "e", "m">>

\* "(User inserted an attachment<paperclip>)"; the last-but-one element is the
\* one code point U+1F4CE
Placeholder ==
    <<"(", "U", "s", "e", "r", " ", "i", "n", "s", "e", "r", "t", "e", "d", " ",
      "a", "n", " ", "a", "t", "t", "a", "c", "h", "m", "e", "n", "t", "U+1F4CE", ")">>

\* the substrings looked for in str(msg)
AttachmentMarkers ==
    { <<"t", "e", "r", "m", "i", "n", "a", "l">>,
      <<"a", "d", "d", "i", "t", "i", "o", "n", "a", "l", "_", "d", "a", "t", "a">>,
      <<"a", "t", "t", "a", "c", "h", "m", "e", "n", "t", "s">>,
      <<"f", "i", "l", "e", "_", "c", "o", "n", "t", "e", "n", "t", "s">>,
      <<"a", "t", "t", "a", "c", "h", "e", "d", "_", "f", "i", "l", "e", "s">> }

\* role in ["1", 1, "user"]
UserRoles == {PyStr(S_1), PyInt(1), PyStr(S_user)}
IsUserRole(role) == \E r \in UserRoles : PyEq(role, r)

\* role in ["2", 2, "assistant"]
AssistantRoles == {PyStr(S_2), PyInt(2), PyStr(S_assistant)}
IsAssistantRole(role) == \E r \in AssistantRoles : PyEq(role, r)

----------------------------------------------------------------------------
(* Conversation entries.  An entry is a dict with the keys the program    *)
(* reads (isdict), or a value that is not a dict.  The keys attachments    *)
(* and files stand for the two shapes of attachment evidence: attachments  *)
(* (like additional_data) is read with get() and its name is one of the    *)
(* substrings looked for in str(msg); files (like images) is only read     *)
(* with get().                                                             *)

MsgKeys == {"role", "type", "isUser", "content", "text", "message", "attachments", "files"}

Entry(role, type, isUser, content, text, message, attachments, files) ==
    [isdict |-> TRUE, role |-> role, type |-> type, isUser |-> isUser,
     content |-> content, text |-> text, message |-> message,
     attachments |-> attachments, files |-> files]

NotADict == [Entry(Absent, Absent, Absent, Absent, Absent, Absent, Absent, Absent)
                EXCEPT !.isdict = FALSE]

\* the entry variable before any entry is processed
NoEntry == [NotADict EXCEPT !.role = None]

S_hi == <<"h", "i">>
S_t == <<"t">>
S_m == <<"m">>

\* entries that vary the role field, with and without content and attachment
RoleContentEntries ==
    { Entry(r, Absent, Absent, c, Absent, Absent, a, Absent) :
        r \in {Absent, PyStr(S_1), PyInt(1), PyStr(S_2), PyInt(2), PyStr(S_user),
               PyStr(S_assistant), PyStr(S_system)},
        c \in {PyStr(<<>>), PyStr(S_hi)},
        a \in {Absent, PyList(1)} }

\* entries of whitespace-only content, with no, an empty and a non-empty attachments list
BlankContentEntries ==
    { Entry(r, Absent, Absent, PyStr(<<" ">>), Absent, Absent, a, Absent) :
        r \in {PyInt(1), PyStr(S_2)},
        a \in {Absent, PyList(0), PyList(1)} }

\* entries that vary the three sources of the role
RoleSourceEntries ==
    { Entry(r, t, u, PyStr(S_hi), Absent, Absent, Absent, Absent) :
        r \in {Absent, PyStr(<<>>), PyStr(S_1)},
        t \in {Absent, PyStr(S_2)},
        u \in {Absent, PyBool(TRUE), PyBool(FALSE)} }

\* entries of a user that vary the three sources of the content
ContentSourceEntries ==
    { Entry(PyInt(1), Absent, Absent, c, t, m, Absent, f) :
        c \in {Absent, PyStr(<<>>)},
        t \in {Absent, PyStr(S_t)},
        m \in {Absent, None, PyStr(S_m)},
        f \in {Absent, PyList(1)} }

\* entries whose content is not a str
BadContentEntries ==
    { Entry(PyInt(1), Absent, Absent, c, Absent, Absent, Absent, Absent) :
        c \in {PyInt(5), PyInt(0)} }

Entries ==
    RoleContentEntries \cup BlankContentEntries \cup RoleSourceEntries
        \cup ContentSourceEntries \cup BadContentEntries \cup {NotADict}

----------------------------------------------------------------------------
(* read_chat_history: normalization of one conversation entry *)

\* a resolution that looks at the type field before the role field
ResolveRole_TypeFirst(msg) ==
    Or(Get(msg, "type"),
       Or(Get(msg, "role"),
          IF Truthy(Get(msg, "isUser")) THEN PyStr(S_user) ELSE PyStr(S_assistant)))

\* role = msg.get('role') or msg.get('type') or ('user' if msg.get('isUser') else 'assistant')
ResolveRole(msg) ==
    Or(Get(msg, "role"),
       Or(Get(msg, "type"),
          IF Truthy(Get(msg, "isUser")) THEN PyStr(S_user) ELSE PyStr(S_assistant)))

\* content = msg.get('content') or msg.get('text') or msg.get('message', '')
ResolveContent(msg) ==
    Or(Get(msg, "content"), Or(Get(msg, "text"), GetDefault(msg, "message", PyStr(<<>>))))

\* marker in str(msg): the marker is in a key of the dict or in one of its str values
InStrOfMsg(msg, marker) ==
    \/ \E key \in MsgKeys :
         /\ msg[key].k # "absent"
         /\ \/ key = "attachments" /\ marker = <<"a", "t", "t", "a", "c", "h", "m", "e", "n", "t", "s">>
            \/ msg[key].k = "str" /\ Contains(msg[key].s, marker)

\* has_attachment, as a truth value
HasAttachment(msg) ==
    \/ Truthy(Get(msg, "attachments"))
    \/ Truthy(Get(msg, "files"))
    \/ \E marker \in AttachmentMarkers : InStrOfMsg(msg, marker)

\* content.strip() raises AttributeError on a value that is not a str; it is
\* evaluated only when `not content` is false
StripRaises(content) == Truthy(content) /\ content.k # "str"

\* not content or content.strip() == ''
IsBlank(content) == ~Truthy(content) \/ Strip(content.s) = <<>>

\* a rewrite that never happens: the blank content is left as it is
AttachmentContent_NoRewrite(role, content, has_attachment) == content

\* the content after the attachment rewrite of lines 366-367
AttachmentContent(role, content, has_attachment) ==
    IF IsBlank(content) /\ has_attachment /\ IsUserRole(role)
    THEN PyStr(Placeholder)
    ELSE content

\* if role: ... if content:   (lines 364, 370)
KeepMessage(role, content) == Truthy(role) /\ Truthy(content)

\* a user message that is counted as a question but not as a conversation
CountMessage_UserNotCounted(st, role) ==
    IF IsUserRole(role)
    THEN [st EXCEPT !.user_questions = @ + 1, !.current_role = "user"]
    ELSE IF IsAssistantRole(role)
    THEN [st EXCEPT !.chat_count = IF st.current_role = "user" THEN @ + 1 ELSE @,
                    !.current_role = "assistant"]
    ELSE st

\* an assistant message that is counted whatever the cursor says
CountMessage_AssistantAlways(st, role) ==
    IF IsUserRole(role)
    THEN [st EXCEPT !.user_questions = @ + 1, !.chat_count = @ + 1, !.current_role = "user"]
    ELSE IF IsAssistantRole(role)
    THEN [st EXCEPT !.chat_count = @ + 1, !.current_role = "assistant"]
    ELSE st

\* the counters and the cursor after a kept message of this role (lines 378-385)
CountMessage(st, role) ==
    IF IsUserRole(role)
    THEN [st EXCEPT !.user_questions = @ + 1, !.chat_count = @ + 1, !.current_role = "user"]
    ELSE IF IsAssistantRole(role)
    THEN [st EXCEPT !.chat_count = IF st.current_role = "user" THEN @ + 1 ELSE @,
                    !.current_role = "assistant"]
    ELSE st

\* whether the body of the loop raises on this entry
EntryRaises(msg) == msg.isdict /\ StripRaises(ResolveContent(msg))

\* one iteration of `for msg in conversation` that does not raise (lines 337-391);
\* st holds the session's messages and counters and the cursor
ProcessEntry(st, msg) ==
    IF ~msg.isdict
    THEN st
    ELSE LET role == ResolveRole(msg)
             content == AttachmentContent(role, ResolveContent(msg), HasAttachment(msg))
         IN IF KeepMessage(role, content)
            THEN CountMessage(
                    [st EXCEPT !.messages = Append(@, [role |-> role, content |-> content])],
                    role)
            ELSE st

\* the session dict of lines 326-333 with the cursor of line 336
NewSessionState(title) ==
    [title |-> title, messages |-> <<>>, user_questions |-> 0, chat_count |-> 0,
     current_role |-> "None"]

\* the session dict without the cursor, as appended to all_chat_sessions
SessionOf(st) ==
    [title |-> st.title, messages |-> st.messages,
     user_questions |-> st.user_questions, chat_count |-> st.chat_count]

S_Unnamed ==
    <<"U", "n", "n", "a", "m", "e", "d", " ", "S", "e", "s", "s", "i", "o", "n">>

----------------------------------------------------------------------------
(* process_code_blocks *)

S_amp == <<"&", "a", "m", "p", ";">>
S_lt == <<"&", "l", "t", ";">>
S_gt == <<"&", "g", "t", ";">>
S_br == <<"<", "b", "r", ">">>
S_pre_open == <<"<", "p", "r", "e", ">", "<", "c", "o", "d", "e", ">">>
S_pre_close == <<"<", "/", "c", "o", "d", "e", ">", "<", "/", "p", "r", "e", ">">>
\* the backquote character is written "BQ"
BQ == "BQ"
S_fence == <<BQ, BQ, BQ>>

\* str.replace(c, rep) for a pattern of one character
RECURSIVE Replace(_, _, _)
Replace(chars, c, rep) ==
    IF chars = <<>> THEN <<>>
    ELSE (IF Head(chars) = c THEN rep ELSE <<Head(chars)>>) \o Replace(Tail(chars), c, rep)

\* text.replace("&", "&amp;").replace("<", "&lt;").replace(">", "&gt;")  (line 245)
EscapeHtml(chars) == Replace(Replace(Replace(chars, "&", S_amp), "<", S_lt), ">", S_gt)

\* text.split("\n")
RECURSIVE SplitLines(_)
SplitLines(chars) ==
    IF \A i \in DOMAIN chars : chars[i] # "\n"
    THEN <<chars>>
    ELSE LET i == CHOOSE j \in DOMAIN chars :
                    chars[j] = "\n" /\ \A h \in 1..(j - 1) : chars[h] # "\n"
         IN <<SubSeq(chars, 1, i - 1)>> \o SplitLines(SubSeq(chars, i + 1, Len(chars)))

\* sep.join(parts)
RECURSIVE Join(_, _)
Join(parts, sep) ==
    IF parts = <<>> THEN <<>>
    ELSE IF Len(parts) = 1 THEN parts[1]
    ELSE parts[1] \o sep \o Join(Tail(parts), sep)

\* line.strip().startswith(three backquotes)
IsFence(line) ==
    LET stripped == Strip(line)
    IN Len(stripped) >= 3 /\ SubSeq(stripped, 1, 3) = S_fence

\* a block that leaves out the lines gathered
PreBlock_Empty(code_block) == S_pre_open \o S_pre_close

\* f"<pre><code>{''.join(code_block)}</code></pre>"
PreBlock(code_block) == S_pre_open \o Join(code_block, <<>>) \o S_pre_close

\* the loop of lines 252-263 and the flush of lines 265-266
RECURSIVE ScanLines(_, _, _, _)
ScanLines(lines, in_code_block, code_block, processed_lines) ==
    IF lines = <<>>
    THEN IF in_code_block /\ code_block # <<>>
         THEN Append(processed_lines, PreBlock(code_block))
         ELSE processed_lines
    ELSE LET line == Head(lines)
         IN IF IsFence(line)
            THEN IF in_code_block
                 THEN ScanLines(Tail(lines), FALSE, <<>>,
                                Append(processed_lines, PreBlock(code_block)))
                 ELSE ScanLines(Tail(lines), TRUE, code_block, processed_lines)
            ELSE IF in_code_block
                 THEN ScanLines(Tail(lines), in_code_block,
                                Append(code_block, line \o <<"\n">>), processed_lines)
                 ELSE ScanLines(Tail(lines), in_code_block, code_block,
                                Append(processed_lines, line))

\* process_code_blocks(text), on the characters of text
ProcessCodeBlocks(chars) ==
    IF chars = <<>> THEN <<>>
    ELSE Join(ScanLines(SplitLines(EscapeHtml(chars)), FALSE, <<>>, <<>>), S_br)

----------------------------------------------------------------------------
(* The report.  The HTML text is modelled by its elements: the line of     *)
(* totals and one element per session <div>, with the header's parts and   *)
(* the message <div>s (class and inner HTML) in order.                     *)

NoHeader == [title |-> None, count |-> 0, unit |-> "none"]

\* the <div> of totals of lines 427-431 and 541-545
TotalElement(sessions, questions) ==
    [kind |-> "total", sessions |-> sessions, questions |-> questions,
     header |-> NoHeader, blocks |-> <<>>]

\* a session <div> of lines 468-473, 561-567 and 606-612
SessionElement(header, blocks) ==
    [kind |-> "session", sessions |-> 0, questions |-> 0,
     header |-> header, blocks |-> blocks]

\* '<div class="message user-message">{self.process_code_blocks(content_text)}</div>'
MessageBlock(class, content) == [class |-> class, html |-> ProcessCodeBlocks(content.s)]

\* the header of lines 438-446: the title is shown in every mode but current
HeaderOf(s, mode) ==
    IF mode = "current"
    THEN [title |-> None, count |-> s.chat_count, unit |-> "conversations"]
    ELSE IF mode = "all"
    THEN [title |-> s.title, count |-> s.chat_count, unit |-> "conversations"]
    ELSE [title |-> s.title, count |-> s.user_questions, unit |-> "user questions"]

\* role == "1" or role == 1   (line 462)
RendersAsUser(role) == PyEq(role, PyStr(S_1)) \/ PyEq(role, PyInt(1))

\* role == "2" or role == 2   (line 464)
RendersAsAssistant(role) == PyEq(role, PyStr(S_2)) \/ PyEq(role, PyInt(2))

\* session_content of lines 455-465
RECURSIVE SessionContent(_)
SessionContent(messages) ==
    IF messages = <<>> THEN <<>>
    ELSE LET msg == Head(messages)
             rest == SessionContent(Tail(messages))
         IN IF RendersAsUser(msg.role)
            THEN <<MessageBlock("user-message", msg.content)>> \o rest
            ELSE IF RendersAsAssistant(msg.role)
            THEN <<MessageBlock("assistant-message", msg.content)>> \o rest
            ELSE rest

\* the loop of lines 433-476
RECURSIVE SessionElements(_, _)
SessionElements(chat_sessions, mode) ==
    IF chat_sessions = <<>> THEN <<>>
    ELSE LET s == Head(chat_sessions)
             rest == SessionElements(Tail(chat_sessions), mode)
             session_content == SessionContent(s.messages)
         IN IF s.messages # <<>> /\ session_content # <<>>
            THEN <<SessionElement(HeaderOf(s, mode), session_content)>> \o rest
            ELSE rest

\* create_html_content(chat_sessions, mode)
CreateHtmlContent(chat_sessions, mode) ==
    (IF mode \in {"all", "summary"}
     THEN <<TotalElement(Len(chat_sessions), 0)>>
     ELSE <<>>)
    \o SessionElements(chat_sessions, mode)

----------------------------------------------------------------------------
(* The four export methods.  Each yields what it returns (the output file  *)
(* name, or NoFile for None), the files it writes and whether it raises.   *)

Letters ==
    {"a", "b", "c", "d", "e", "f", "g", "h", "i", "j", "k", "l", "m", "n", "o", "p", "q",
     "r", "s", "t", "u", "v", "w", "x", "y", "z",
     "A", "B", "C", "D", "E", "F", "G", "H", "I", "J", "K", "L", "M", "N", "O", "P", "Q",
     "R", "S", "T", "U", "V", "W", "X", "Y", "Z"}
Digits == {"0", "1", "2", "3", "4", "5", "6", "7", "8", "9"}

\* the default title of the Chinese variant: five ideographs, each written by
\* its code point; str.isalnum() holds of each
S_Unnamed_zh == <<"U+672A", "U+547D", "U+540D", "U+4F1A", "U+8BDD">>
Ideographs == {S_Unnamed_zh[i] : i \in DOMAIN S_Unnamed_zh}

\* "".join([c if c.isalnum() or c in " _-" else "_" for c in title])
SafeTitle(chars) ==
    [i \in DOMAIN chars |->
        IF chars[i] \in Letters \cup Digits \cup Ideographs \cup {" ", "_", "-"}
        THEN chars[i] ELSE "_"]

\* the name of an output file: its prefix and the sanitized title; the timestamp
\* of get_timestamp() is the same throughout a run and is left out
FileName(prefix, safe_title) == [prefix |-> prefix, safe_title |-> safe_title]
NoFile == FileName("None", <<>>)

\* HTML_TEMPLATE.format(title=..., content=...)
Page(name, title, suffix, content) ==
    [name |-> name, title |-> title, suffix |-> suffix, content |-> content]

Returns(name, pages) == [raises |-> FALSE, returns |-> name, writes |-> pages]
Raises == [raises |-> TRUE, returns |-> NoFile, writes |-> <<>>]

\* export_current_chat (lines 482-504); iterating a title that is not a str raises
ExportCurrentChat(chat_sessions) ==
    IF chat_sessions = <<>> THEN Returns(NoFile, <<>>)
    ELSE LET latest_session == <<chat_sessions[Len(chat_sessions)]>>
             title == latest_session[1].title
         IN IF title.k # "str" THEN Raises
            ELSE LET out_file == FileName("chat", SafeTitle(title.s))
                 IN Returns(out_file,
                            <<Page(out_file, title, " - Chat History",
                                   CreateHtmlContent(latest_session, "current"))>>)

\* export_all_chats (lines 506-523)
ExportAllChats(chat_sessions) ==
    IF chat_sessions = <<>> THEN Returns(NoFile, <<>>)
    ELSE LET out_file == FileName("All chats", <<>>)
         IN Returns(out_file,
                    <<Page(out_file, None, "All Chat History",
                           CreateHtmlContent(chat_sessions, "all"))>>)

\* [msg.get("content", "") for msg in messages if msg.get("role") in ["1", 1, "user"]]
RECURSIVE UserQuestionContents(_)
UserQuestionContents(messages) ==
    IF messages = <<>> THEN <<>>
    ELSE (IF IsUserRole(Head(messages).role) THEN <<Head(messages).content>> ELSE <<>>)
            \o UserQuestionContents(Tail(messages))

\* the user-message <div>s of the questions q with q.strip()
RECURSIVE QuestionBlocks(_)
QuestionBlocks(contents) ==
    IF contents = <<>> THEN <<>>
    ELSE (IF Strip(Head(contents).s) # <<>>
          THEN <<MessageBlock("user-message", Head(contents))>>
          ELSE <<>>)
            \o QuestionBlocks(Tail(contents))

\* sum(s.get('user_questions', 0) for s in chat_sessions)
RECURSIVE TotalUserQuestions(_)
TotalUserQuestions(chat_sessions) ==
    IF chat_sessions = <<>> THEN 0
    ELSE Head(chat_sessions).user_questions + TotalUserQuestions(Tail(chat_sessions))

\* a loop that emits a block for every session, with or without a user message
RECURSIVE SummaryElements_EverySession(_)
SummaryElements_EverySession(chat_sessions) ==
    IF chat_sessions = <<>> THEN <<>>
    ELSE <<SessionElement(HeaderOf(Head(chat_sessions), "summary"),
                          QuestionBlocks(UserQuestionContents(Head(chat_sessions).messages)))>>
            \o SummaryElements_EverySession(Tail(chat_sessions))

\* the loop of lines 548-568
RECURSIVE SummaryElements(_)
SummaryElements(chat_sessions) ==
    IF chat_sessions = <<>> THEN <<>>
    ELSE LET s == Head(chat_sessions)
             rest == SummaryElements(Tail(chat_sessions))
             user_question_contents == UserQuestionContents(s.messages)
         IN IF s.messages = <<>> \/ s.user_questions = 0 THEN rest
            ELSE IF user_question_contents # <<>>
            THEN <<SessionElement(HeaderOf(s, "summary"),
                                  QuestionBlocks(user_question_contents))>> \o rest
            ELSE rest

\* export_summary (lines 525-579)
ExportSummary(chat_sessions) ==
    IF chat_sessions = <<>> THEN Returns(NoFile, <<>>)
    ELSE LET out_file == FileName("All questions", <<>>)
         IN Returns(out_file,
                    <<Page(out_file, None, "User Questions Summary",
                           <<TotalElement(Len(chat_sessions),
                                          TotalUserQuestions(chat_sessions))>>
                              \o SummaryElements(chat_sessions))>>)

\* export_current_summary (lines 581-624)
ExportCurrentSummary(chat_sessions) ==
    IF chat_sessions = <<>> THEN Returns(NoFile, <<>>)
    ELSE LET latest_session == chat_sessions[Len(chat_sessions)]
             title == latest_session.title
             user_question_contents == UserQuestionContents(latest_session.messages)
         IN IF title.k # "str" THEN Raises
            ELSE IF user_question_contents # <<>>
            THEN LET out_file == FileName("questions", SafeTitle(title.s))
                 IN Returns(out_file,
                            <<Page(out_file, title, " - Questions Summary",
                                   <<SessionElement(
                                        [title |-> None,
                                         count |-> latest_session.user_questions,
                                         unit |-> "user questions"],
                                        QuestionBlocks(user_question_contents))>>)>>)
            ELSE Returns(NoFile, <<>>)

\* an argument check that lets another word through
Modes_AnyWord == {"current", "all", "summary", "current-summary", "bogus"}

\* sys.argv[1] in ["current", "all", "summary", "current-summary"]
Modes == {"current", "all", "summary", "current-summary"}

\* an export that opens its output file before it has read anything
Export_OpensFirst(mode, chat_sessions) ==
    LET out_file == FileName("All chats", <<>>)
    IN IF chat_sessions = <<>>
       THEN Returns(out_file, <<Page(out_file, None, "All Chat History", <<>>)>>)
       ELSE ExportAllChats(chat_sessions)

\* the dispatch of lines 639-646
Export(mode, chat_sessions) ==
    IF mode = "current" THEN ExportCurrentChat(chat_sessions)
    ELSE IF mode = "all" THEN ExportAllChats(chat_sessions)
    ELSE IF mode = "current-summary" THEN ExportCurrentSummary(chat_sessions)
    ELSE ExportSummary(chat_sessions)

----------------------------------------------------------------------------
(* The Chinese variant, where it differs from the English one in more than *)
(* the text it prints and the text of the page around the content          *)

\* "(<six ideographs><paperclip>)", the placeholder of the Chinese variant
Placeholder_zh ==
    <<"(", "U+7528", "U+6237", "U+63D2", "U+5165", "U+4E86", "U+9644", "U+4EF6",
      "U+1F4CE", ")">>

\* the session the Chinese variant builds from the record of which the English
\* variant builds s: the default title and the placeholder are its own (no
\* record holds the English default title or placeholder as its own text)
Session_zh(s) ==
    [s EXCEPT
        !.title = IF @ = PyStr(S_Unnamed) THEN PyStr(S_Unnamed_zh) ELSE @,
        !.messages = [j \in DOMAIN @ |->
                        IF @[j].content = PyStr(Placeholder)
                        THEN [@[j] EXCEPT !.content = PyStr(Placeholder_zh)]
                        ELSE @[j]]]

\* the list read_chat_history of the Chinese variant returns on the same records
ReadChatHistory_zh(sessions) == [i \in DOMAIN sessions |-> Session_zh(sessions[i])]

\* what the export method of the Chinese variant returns: the name of its output
\* file, or NoFile
OutputFile_zh(mode, chat_sessions) ==
    IF chat_sessions = <<>> THEN NoFile
    ELSE LET latest_session == chat_sessions[Len(chat_sessions)]
             title == latest_session.title
         IN IF mode = "all" THEN FileName("All chats", <<>>)
            ELSE IF mode = "summary" THEN FileName("questions", <<>>)
            ELSE IF title.k # "str" THEN NoFile
            ELSE IF mode = "current" THEN FileName("chat", SafeTitle(title.s))
            ELSE IF UserQuestionContents(latest_session.messages) # <<>>
            THEN FileName("questions", SafeTitle(title.s))
            ELSE NoFile

----------------------------------------------------------------------------
(* Records of the cursorDiskKV table *)

\* a record whose value decodes to a JSON object with these members
DictRecord(title, name, conversation) ==
    [kind |-> "dict", title |-> title, name |-> name, conversation |-> conversation]

\* a record whose value is not valid JSON (json.loads raises)
BadJsonRecord == [DictRecord(Absent, Absent, <<>>) EXCEPT !.kind = "badjson"]

UserHi == Entry(PyInt(1), Absent, Absent, PyStr(S_hi), Absent, Absent, Absent, Absent)
AssistantHi == Entry(PyStr(S_2), Absent, Absent, PyStr(S_hi), Absent, Absent, Absent, Absent)
SystemHi == Entry(PyStr(S_system), Absent, Absent, PyStr(S_hi), Absent, Absent, Absent, Absent)
BadContent == Entry(PyInt(1), Absent, Absent, PyInt(5), Absent, Absent, Absent, Absent)

\* the records a database of the run may hold
RunRecords ==
    { BadJsonRecord,
      DictRecord(Absent, Absent, <<>>),
      DictRecord(PyStr(<<"A">>), Absent, <<UserHi, AssistantHi>>),
      DictRecord(Absent, Absent, <<SystemHi>>),
      DictRecord(Absent, Absent, <<UserHi, BadContent>>) }

\* title = data.get('title') or data.get('name', 'Unnamed Session')
RecordTitle(data) == Or(Get(data, "title"), GetDefault(data, "name", PyStr(S_Unnamed)))

\* the loop over the conversation, when no entry raises
RECURSIVE NormalizeConversation(_, _)
NormalizeConversation(st, conversation) ==
    IF conversation = <<>> THEN st
    ELSE NormalizeConversation(ProcessEntry(st, Head(conversation)), Tail(conversation))

\* whether the try block of lines 306-397 raises on this record
RecordRaises(record) ==
    \/ record.kind # "dict"
    \/ \E i \in DOMAIN record.conversation : EntryRaises(record.conversation[i])

\* a record whose conversation raises and leaves what was built of its session
AfterRecord_KeepsPartial(sessions, record) ==
    IF record.kind # "dict" THEN sessions
    ELSE LET st == NormalizeConversation(NewSessionState(RecordTitle(record)),
                                         record.conversation)
         IN IF st.messages # <<>> THEN Append(sessions, SessionOf(st)) ELSE sessions

\* all_chat_sessions after one record (lines 305-401)
AfterRecord(sessions, record) ==
    IF RecordRaises(record) THEN sessions
    ELSE LET st == NormalizeConversation(NewSessionState(RecordTitle(record)),
                                         record.conversation)
         IN IF st.messages # <<>> THEN Append(sessions, SessionOf(st)) ELSE sessions

----------------------------------------------------------------------------
(* Files.  A path is a pair; a file's content is "missing" or what a query *)
(* of it finds: "chat" (records with keys composerData:...), "otherkey"    *)
(* (records whose key only contains composerData), "nochat" (no such       *)
(* record), "unreadable" (the query raises) or "partial" (what a failed    *)
(* copy left behind).                                                      *)

GlobalDb == <<"globalStorage/state.vscdb", 0>>

\* the directories under workspaceStorage: 0 is images, the others are workspaces
ImagesDir == 0
WorkspaceDirs == 0..NumWorkspaces

\* db_file = item / "state.vscdb"   (line 192)
WorkspaceDb(item) == <<"workspaceStorage/state.vscdb", item>>

\* temp_check_{item.name}.vscdb in the working directory (line 196)
CheckScratchPath(item) == <<"temp_check", item>>

\* temp_state_{len(all_chat_sessions)}.vscdb in the working directory (line 281)
StateScratchPath(n) == <<"temp_state", n>>

OriginalPaths == {GlobalDb} \cup {WorkspaceDb(d) : d \in WorkspaceDirs}
ScratchPaths ==
    {CheckScratchPath(d) : d \in WorkspaceDirs}
        \cup {StateScratchPath(n) : n \in 0..MaxRecords}
Paths == OriginalPaths \cup ScratchPaths

DbContents == {"chat", "otherkey", "nochat", "unreadable"}

\* shutil.copy2(src, dst) that returns: dst holds the content of src, or an
\* unreadable image when the source was being written
CopiedContents(files, src) == {files[src], "unreadable"}

\* shutil.copy2(src, dst) that raises: dst is as before or holds part of the copy
FailedCopyContents(files, dst) == {files[dst], "partial"}

\* the query raises on this content
QueryRaises(content) == content \in {"unreadable", "partial", "missing"}

\* a check that any record of the table satisfies
HasComposerKey_AnyRecord(content) == content \in {"chat", "otherkey", "nochat"}

\* SELECT ... WHERE key LIKE '%composerData%' returns records (lines 203-206)
HasComposerKey(content) == content \in {"chat", "otherkey"}

\* SELECT ... WHERE key LIKE 'composerData:%' returns records (lines 301-302)
HasComposerRecords(content) == content = "chat"

\* the file _find_db_paths connects to (line 199)
CheckConnectTarget(db_file, temp) == temp

\* a connection opened on the database itself
ConnectTarget_Original(db_path, temp) == db_path

\* the file read_chat_history connects to (line 287)
ConnectTarget(db_path, temp) == temp

\* a removal that leaves the file where it is
Remove_Nothing(files, path) == files

\* os.remove(path), inside try/except: pass
Remove(files, path) == [files EXCEPT ![path] = "missing"]

\* conn.close() if 'conn' in locals()
Closed(c) == IF c = <<"unbound", 0>> THEN c ELSE <<"closed", 0>>

\* a cleanup that is skipped when the candidate's processing raised
CleanupRuns_OnSuccessOnly(how) == how \in {"read", "read_malformed"}

\* finally: the cleanup of lines 406-414 runs whatever the outcome
CleanupRuns(how) == how \in {"copy_failed", "query_failed", "read", "read_malformed"}

----------------------------------------------------------------------------
(* _get_current_workspace.  CURSOR_WORKSPACE_ID is "unset", "empty" or the   *)
(* identifier "W".  Reading storage.json finds the file "missing", fails     *)
(* ("unreadable": open raises; "unparsable": json.load raises; "notdict":    *)
(* the value has no get), or gives a dict with no lastActiveWorkspace        *)
(* ("nofield"), an empty one ("emptyfield") or the identifier "S".  Every    *)
(* directory of the walk has a .cursor/config.json that is "missing",        *)
(* "unparsable", without a workspaceId ("nofield") or with the identifier    *)
(* "C", and has a .git entry or not.                                         *)

EnvironValues == {"unset", "empty", "W"}
StorageJsonValues ==
    {"missing", "unreadable", "unparsable", "notdict", "nofield", "emptyfield", "S"}
ConfigValues == {"missing", "unparsable", "nofield", "C"}
Directories == [config : ConfigValues, git : BOOLEAN]

\* the walks from the working directory up: the root itself is not looked at
Walks == UNION {[1..n -> Directories] : n \in 0..MaxDepth}

\* lines 118-121 raise, inside the outer try only
StorageRaises(sj) == sj \in {"unreadable", "unparsable", "notdict"}

\* the loop of lines 133-153: config.json first, then .git, then the parent
RECURSIVE WalkUp(_)
WalkUp(dirs) ==
    IF dirs = <<>> THEN "None"
    ELSE IF Head(dirs).config = "C" THEN "C"
    ELSE IF Head(dirs).git THEN "hash"
    ELSE WalkUp(Tail(dirs))

\* _get_current_workspace (lines 105-159); the except clause of line 157 returns None
GetCurrentWorkspace(env, sj, dirs) ==
    IF env = "W" THEN "W"
    ELSE IF StorageRaises(sj) THEN "None"
    ELSE IF sj = "S" THEN "S"
    ELSE WalkUp(dirs)

----------------------------------------------------------------------------
(* The run of the program *)

\* sys.argv[1:]: a mode, another word, no argument or two arguments
Args == Modes \cup {"bogus", "none", "current extra"}

Init ==
    /\ pc = "main"
    /\ argv = "none"
    /\ storage \in {"ok", "missing", "unreadable"}
    /\ disk0 \in [OriginalPaths -> DbContents \cup {"missing"}]
    /\ disk0[GlobalDb] \in {"missing", "chat", "unreadable"}
    /\ disk0[WorkspaceDb(ImagesDir)] \in {"missing", "chat"}
    \* with a global database, or without the directory, the workspaces are not read
    /\ disk0[GlobalDb] # "missing" =>
         storage = "ok" /\ \A d \in WorkspaceDirs : disk0[WorkspaceDb(d)] = "chat"
    /\ storage # "ok" => \A d \in WorkspaceDirs : disk0[WorkspaceDb(d)] = "missing"
    /\ fs = [p \in Paths |-> IF p \in OriginalPaths THEN disk0[p] ELSE "missing"]
    /\ environ = "unset"
    /\ storage_json = "missing"
    /\ cwd_dirs = <<>>
    /\ current_workspace = "unbound"
    /\ output_dir = FALSE
    /\ db_paths = <<>>
    /\ todo = <<>>
    /\ conn = <<"unbound", 0>>
    /\ idx = 0
    /\ temp_db_path = <<"unbound", 0>>
    /\ nrec = 0
    /\ removes = 0
    /\ outcome = "none"
    /\ session = NewSessionState(PyStr(S_Unnamed))
    /\ current_role = "None"
    /\ entry = NoEntry
    /\ nproc = 0
    /\ all_chat_sessions = <<>>
    /\ output_file = NoFile
    /\ written = <<>>
    /\ printed = "nothing"
    /\ exit_status = -1

\* main, lines 627-633: the argument check
MainUsage ==
    /\ pc = "main"
    /\ \E a \in Args \ Modes : argv' = a
    /\ printed' = "usage"
    /\ exit_status' = 1
    /\ pc' = "exited"
    /\ UNCHANGED <<envVars, fileVars, findVars, readVars, normVars, output_file, written>>

\* main, lines 627-636, and __init__, lines 96-102
MainConstruct ==
    /\ pc = "main"
    /\ \E a \in Modes : argv' = a
    /\ output_dir' = TRUE
    /\ current_workspace' = GetCurrentWorkspace(environ, storage_json, cwd_dirs)
    /\ db_paths' = <<>>
    /\ pc' = "find"
    /\ UNCHANGED <<disk0, storage, environ, storage_json, cwd_dirs, fileVars, todo,
                   readVars, normVars, output_file, written, printed, exit_status>>

\* _find_db_paths, lines 163-185 and 224-225; iterdir() yields the directories in
\* the order of their names
FindStart ==
    /\ pc = "find"
    /\ IF fs[GlobalDb] # "missing"
       THEN db_paths' = Append(db_paths, GlobalDb) /\ pc' = "read" /\ todo' = todo
       ELSE IF storage # "ok"
       THEN pc' = "read" /\ UNCHANGED <<db_paths, todo>>
       ELSE /\ todo' = [i \in 1..NumWorkspaces |-> i]
            /\ pc' = "find_item"
            /\ db_paths' = db_paths
    /\ UNCHANGED <<envVars, fileVars, output_dir, readVars, normVars, mainVars>>

\* _find_db_paths, lines 188-198 and 221-222: a directory without a database is
\* passed over, the database of another is copied
FindItem ==
    /\ pc = "find_item"
    /\ todo # <<>>
    /\ LET db_file == WorkspaceDb(Head(todo))
           temp == CheckScratchPath(Head(todo))
       IN IF fs[db_file] = "missing"
          THEN /\ todo' = Tail(todo)
               /\ UNCHANGED <<pc, fs, temp_db_path>>
          ELSE /\ temp_db_path' = temp
               /\ todo' = todo
               /\ \/ /\ \E c \in CopiedContents(fs, db_file) : fs' = [fs EXCEPT ![temp] = c]
                     /\ pc' = "find_query"
                  \/ /\ \E c \in FailedCopyContents(fs, temp) : fs' = [fs EXCEPT ![temp] = c]
                     /\ pc' = "find_finally"
    /\ UNCHANGED <<envVars, conn, output_dir, db_paths, idx, nrec, removes,
                   outcome, all_chat_sessions, normVars, mainVars>>

\* _find_db_paths, lines 199-213: connect, query, keep the path when records are found
FindQuery ==
    /\ pc = "find_query"
    /\ LET db_file == WorkspaceDb(Head(todo))
           target == CheckConnectTarget(db_file, temp_db_path)
       IN /\ conn' = target
          /\ db_paths' = IF ~QueryRaises(fs[target]) /\ HasComposerKey(fs[target])
                         THEN Append(db_paths, db_file)
                         ELSE db_paths
    /\ pc' = "find_finally"
    /\ UNCHANGED <<envVars, fs, output_dir, todo, readVars, normVars, mainVars>>

\* _find_db_paths, lines 214-220: close, remove the scratch copy, next directory
FindFinally ==
    /\ pc = "find_finally"
    /\ conn' = Closed(conn)
    /\ fs' = Remove(fs, temp_db_path)
    /\ todo' = Tail(todo)
    /\ pc' = "find_item"
    /\ UNCHANGED <<envVars, output_dir, db_paths, readVars, normVars, mainVars>>

\* _find_db_paths, lines 227-232: the loop is over
FindDone ==
    /\ pc = "find_item"
    /\ todo = <<>>
    /\ pc' = "read"
    /\ UNCHANGED <<envVars, fileVars, findVars, readVars, normVars, mainVars>>

\* read_chat_history, lines 270-278
ReadStart ==
    /\ pc = "read"
    /\ all_chat_sessions' = <<>>
    /\ conn' = <<"unbound", 0>>
    /\ removes' = 0
    /\ outcome' = "none"
    /\ nrec' = 0
    /\ IF db_paths = <<>>
       THEN pc' = "export" /\ idx' = idx
       ELSE pc' = "read_copy" /\ idx' = 1
    /\ UNCHANGED <<envVars, fs, findVars, temp_db_path, normVars, mainVars>>

\* read_chat_history, lines 281-284: the scratch copy of the candidate
ReadCopy ==
    /\ pc = "read_copy"
    /\ LET db_path == db_paths[idx]
           temp == StateScratchPath(Len(all_chat_sessions))
       IN /\ temp_db_path' = temp
          /\ \/ /\ \E c \in CopiedContents(fs, db_path) : fs' = [fs EXCEPT ![temp] = c]
                /\ pc' = "read_query"
                /\ outcome' = "none"
             \/ /\ \E c \in FailedCopyContents(fs, temp) : fs' = [fs EXCEPT ![temp] = c]
                /\ pc' = "read_finally"
                /\ outcome' = "copy_failed"
    /\ removes' = 0
    /\ UNCHANGED <<envVars, conn, findVars, idx, nrec, all_chat_sessions, normVars, mainVars>>

\* read_chat_history, lines 286-303: connect and query
ReadQuery ==
    /\ pc = "read_query"
    /\ LET target == ConnectTarget(db_paths[idx], temp_db_path)
       IN /\ conn' = target
          /\ IF QueryRaises(fs[target])
             THEN pc' = "read_finally" /\ outcome' = "query_failed"
             ELSE pc' = "read_records" /\ outcome' = "read"
    /\ UNCHANGED <<envVars, fs, findVars, idx, temp_db_path, nrec, removes,
                   all_chat_sessions, normVars, mainVars>>

\* read_chat_history, lines 305-401: one record of composer_records
ReadRecord ==
    /\ pc = "read_records"
    /\ nrec < MaxRecords
    /\ HasComposerRecords(fs[conn])
    /\ \E record \in RunRecords :
         /\ all_chat_sessions' = AfterRecord(all_chat_sessions, record)
         /\ outcome' = IF RecordRaises(record) THEN "read_malformed" ELSE "read"
    /\ nrec' = nrec + 1
    /\ UNCHANGED <<pc, envVars, fileVars, findVars, idx, temp_db_path, removes,
                   normVars, mainVars>>

\* read_chat_history: composer_records is exhausted (the copy may hold fewer
\* records than the check found: the editor may have removed some since)
ReadRecordsEnd ==
    /\ pc = "read_records"
    /\ pc' = "read_finally"
    /\ UNCHANGED <<envVars, fileVars, findVars, readVars, normVars, mainVars>>

\* a pass that ends at the first candidate that fails
ReadFinally_EndsOnFailure ==
    /\ pc = "read_finally"
    /\ conn' = Closed(conn)
    /\ fs' = Remove(fs, temp_db_path)
    /\ removes' = removes + 1
    /\ IF idx < Len(db_paths) /\ outcome \in {"read", "read_malformed"}
       THEN idx' = idx + 1 /\ pc' = "read_copy"
       ELSE idx' = idx /\ pc' = "export"
    /\ UNCHANGED <<envVars, findVars, temp_db_path, nrec, outcome,
                   all_chat_sessions, normVars, mainVars>>

\* read_chat_history, lines 403-417: the finally clause, then the next candidate
ReadFinally ==
    /\ pc = "read_finally"
    /\ IF CleanupRuns(outcome)
       THEN /\ conn' = Closed(conn)
            /\ fs' = Remove(fs, temp_db_path)
            /\ removes' = removes + 1
       ELSE UNCHANGED <<conn, fs, removes>>
    /\ IF idx < Len(db_paths)
       THEN idx' = idx + 1 /\ pc' = "read_copy"
       ELSE idx' = idx /\ pc' = "export"
    /\ UNCHANGED <<envVars, findVars, temp_db_path, nrec, outcome,
                   all_chat_sessions, normVars, mainVars>>

\* the export method after read_chat_history returned, and main, lines 638-654;
\* opening the output file may fail
MainExport ==
    /\ pc = "export"
    /\ \E io_ok \in BOOLEAN :
         LET result == Export(argv, all_chat_sessions)
             raised == result.raises \/ (~io_ok /\ result.writes # <<>>)
         IN /\ output_file' = IF raised THEN NoFile ELSE result.returns
            /\ written' = IF raised THEN written ELSE written \o result.writes
            /\ printed' = IF raised THEN "error"
                          ELSE IF result.returns # NoFile THEN "success"
                          ELSE "no chat records"
            /\ exit_status' = IF raised THEN 1 ELSE 0
    /\ pc' = "exited"
    /\ UNCHANGED <<argv, envVars, fileVars, findVars, readVars, normVars>>

Next ==
    \/ MainUsage
    \/ MainConstruct
    \/ FindStart
    \/ FindItem
    \/ FindQuery
    \/ FindFinally
    \/ FindDone
    \/ ReadStart
    \/ ReadCopy
    \/ ReadQuery
    \/ ReadRecord
    \/ ReadRecordsEnd
    \/ ReadFinally
    \/ MainExport

Spec == Init /\ [][Next]_vars

----------------------------------------------------------------------------
(* The normalization of one record, entry by entry *)

NormInit ==
    /\ pc = "conversation"
    /\ argv = "none"
    /\ storage = "missing"
    /\ disk0 = [p \in OriginalPaths |-> "missing"]
    /\ fs = [p \in Paths |-> "missing"]
    /\ environ = "unset"
    /\ storage_json = "missing"
    /\ cwd_dirs = <<>>
    /\ current_workspace = "unbound"
    /\ output_dir = FALSE
    /\ db_paths = <<>>
    /\ todo = <<>>
    /\ conn = <<"unbound", 0>>
    /\ idx = 0
    /\ temp_db_path = <<"unbound", 0>>
    /\ nrec = 0
    /\ removes = 0
    /\ outcome = "none"
    /\ session = NewSessionState(PyStr(S_Unnamed))
    /\ current_role = "None"
    /\ entry = NoEntry
    /\ nproc = 0
    /\ all_chat_sessions = <<>>
    /\ output_file = NoFile
    /\ written = <<>>
    /\ printed = "nothing"
    /\ exit_status = -1

normFrame == <<envVars, fileVars, findVars, idx, temp_db_path, nrec, removes, outcome, mainVars>>

\* one iteration of the loop over the conversation (lines 337-391)
NormEntry ==
    /\ pc = "conversation"
    /\ nproc < MaxConv
    /\ \E msg \in Entries :
         /\ ~EntryRaises(msg)
         /\ session' = ProcessEntry(session, msg)
         /\ entry' = msg
    /\ current_role' = session'.current_role
    /\ nproc' = nproc + 1
    /\ UNCHANGED <<pc, all_chat_sessions, normFrame>>

\* an iteration that raises: the except clause of line 399 skips the record
NormRaise ==
    /\ pc = "conversation"
    /\ nproc < MaxConv
    /\ \E msg \in Entries :
         /\ EntryRaises(msg)
         /\ entry' = msg
    /\ pc' = "returned"
    /\ nproc' = nproc + 1
    /\ UNCHANGED <<session, current_role, all_chat_sessions, normFrame>>

\* the end of the conversation: lines 393-397
NormEnd ==
    /\ pc = "conversation"
    /\ all_chat_sessions' =
         IF session.messages # <<>>
         THEN Append(all_chat_sessions, SessionOf(session))
         ELSE all_chat_sessions
    /\ pc' = "returned"
    /\ UNCHANGED <<session, current_role, entry, nproc, normFrame>>

NormNext == NormEntry \/ NormRaise \/ NormEnd

SpecNormalize == NormInit /\ [][NormNext]_vars

----------------------------------------------------------------------------
(* The start of the program, up to the identifier of the workspace *)

WorkspaceInit ==
    /\ pc = "main"
    /\ argv = "none"
    /\ storage = "missing"
    /\ disk0 = [p \in OriginalPaths |-> "missing"]
    /\ fs = [p \in Paths |-> "missing"]
    /\ environ \in EnvironValues
    /\ storage_json \in StorageJsonValues
    /\ cwd_dirs \in Walks
    /\ current_workspace = "unbound"
    /\ output_dir = FALSE
    /\ db_paths = <<>>
    /\ todo = <<>>
    /\ conn = <<"unbound", 0>>
    /\ idx = 0
    /\ temp_db_path = <<"unbound", 0>>
    /\ nrec = 0
    /\ removes = 0
    /\ outcome = "none"
    /\ session = NewSessionState(PyStr(S_Unnamed))
    /\ current_role = "None"
    /\ entry = NoEntry
    /\ nproc = 0
    /\ all_chat_sessions = <<>>
    /\ output_file = NoFile
    /\ written = <<>>
    /\ printed = "nothing"
    /\ exit_status = -1

WorkspaceNext == MainUsage \/ MainConstruct

SpecWorkspace == WorkspaceInit /\ [][WorkspaceNext]_vars

----------------------------------------------------------------------------
(* An export method on its own, on the sessions of a list of records *)

S_a_amp_b == <<"a", "&", "b">>
S_yo == <<"y", "o">>

\* the one-line message of three backquotes, print(1) and three backquotes
S_fenced_print == S_fence \o <<"p", "r", "i", "n", "t", "(", "1", ")">> \o S_fence

RoleEntry(role, content) ==
    Entry(role, Absent, Absent, content, Absent, Absent, Absent, Absent)

\* records that yield a session each: every encoding of the two roles, another
\* role, a title with a metacharacter, a title taken from name, whitespace-only
\* content, the attachment placeholder, a session of the assistant only, a
\* one-line fenced message, a name that is null and an empty title and name
RenderRecords ==
    { DictRecord(PyStr(<<"A">>), Absent,
                 <<RoleEntry(PyInt(1), PyStr(S_hi)), RoleEntry(PyStr(S_2), PyStr(S_hi))>>),
      DictRecord(Absent, Absent,
                 <<RoleEntry(PyStr(S_1), PyStr(S_hi)), RoleEntry(PyInt(2), PyStr(S_hi))>>),
      DictRecord(PyStr(<<"B", "<">>), Absent,
                 <<RoleEntry(PyStr(S_user), PyStr(S_hi)),
                   RoleEntry(PyStr(S_assistant), PyStr(S_hi))>>),
      DictRecord(Absent, PyStr(<<"N">>), <<RoleEntry(PyInt(1), PyStr(<<" ">>))>>),
      DictRecord(Absent, Absent, <<SystemHi>>),
      DictRecord(PyStr(<<"C">>), Absent,
                 <<Entry(PyInt(1), Absent, Absent, PyStr(<<>>), Absent, Absent,
                         PyList(1), Absent),
                   Entry(Absent, Absent, Absent, PyStr(S_a_amp_b), Absent, Absent,
                         Absent, Absent)>>),
      DictRecord(PyStr(<<"D">>), Absent, <<RoleEntry(PyStr(S_2), PyStr(S_yo))>>),
      DictRecord(PyStr(<<"F">>), Absent, <<RoleEntry(PyInt(1), PyStr(S_fenced_print))>>),
      DictRecord(Absent, None, <<RoleEntry(PyInt(1), PyStr(S_hi))>>),
      DictRecord(PyStr(<<>>), PyStr(<<>>),
                 <<RoleEntry(PyInt(1), PyStr(S_hi)), RoleEntry(PyInt(2), PyStr(S_yo))>>) }

\* the lists read_chat_history returns on these records
RECURSIVE AfterRecords(_, _)
AfterRecords(sessions, records) ==
    IF records = <<>> THEN sessions
    ELSE AfterRecords(AfterRecord(sessions, Head(records)), Tail(records))

RenderInit ==
    /\ pc = "export"
    /\ argv \in Modes
    /\ storage = "missing"
    /\ disk0 = [p \in OriginalPaths |-> "missing"]
    /\ fs = [p \in Paths |-> "missing"]
    /\ environ = "unset"
    /\ storage_json = "missing"
    /\ cwd_dirs = <<>>
    /\ current_workspace = "None"
    /\ output_dir = TRUE
    /\ db_paths = <<>>
    /\ todo = <<>>
    /\ conn = <<"closed", 0>>
    /\ idx = 0
    /\ temp_db_path = <<"unbound", 0>>
    /\ nrec = 0
    /\ removes = 0
    /\ outcome = "none"
    /\ session = NewSessionState(PyStr(S_Unnamed))
    /\ current_role = "None"
    /\ entry = NoEntry
    /\ nproc = 0
    /\ \E n \in 0..MaxRenderSessions :
         \E records \in [1..n -> RenderRecords] :
            all_chat_sessions = AfterRecords(<<>>, records)
    /\ output_file = NoFile
    /\ written = <<>>
    /\ printed = "nothing"
    /\ exit_status = -1

RenderNext == MainExport

SpecRender == RenderInit /\ [][RenderNext]_vars

----------------------------------------------------------------------------
(* process_code_blocks on the text of one message: the export of a session *)
(* whose only message, of the user, has the text as its content            *)

\* the lines of the texts: plain, with the three metacharacters, a fence, an
\* indented fence followed by text, empty, and backquotes that are not a fence
TextLines ==
    { <<"a">>,
      <<"<", "&", ">">>,
      S_fence,
      <<" ">> \o S_fence \o <<"&">>,
      <<>>,
      <<"b">> \o S_fence }

\* the texts of one to MaxLines lines
Texts ==
    { Join(ls, <<"\n">>) : ls \in UNION {[1..n -> TextLines] : n \in 1..MaxLines} }

TextInit ==
    /\ pc = "export"
    /\ argv = "current"
    /\ storage = "missing"
    /\ disk0 = [p \in OriginalPaths |-> "missing"]
    /\ fs = [p \in Paths |-> "missing"]
    /\ environ = "unset"
    /\ storage_json = "missing"
    /\ cwd_dirs = <<>>
    /\ current_workspace = "None"
    /\ output_dir = TRUE
    /\ db_paths = <<>>
    /\ todo = <<>>
    /\ conn = <<"closed", 0>>
    /\ idx = 0
    /\ temp_db_path = <<"unbound", 0>>
    /\ nrec = 0
    /\ removes = 0
    /\ outcome = "none"
    /\ session = NewSessionState(PyStr(S_Unnamed))
    /\ current_role = "None"
    /\ entry = NoEntry
    /\ nproc = 0
    /\ \E text \in Texts :
         all_chat_sessions =
            AfterRecords(<<>>, <<DictRecord(PyStr(<<"T">>), Absent,
                                            <<RoleEntry(PyInt(1), PyStr(text))>>)>>)
    /\ output_file = NoFile
    /\ written = <<>>
    /\ printed = "nothing"
    /\ exit_status = -1

TextNext == MainExport

SpecText == TextInit /\ [][TextNext]_vars

----------------------------------------------------------------------------
(* Properties of the normalization (checked under SpecNormalize) *)

\* the sessions in hand: the one being built and the ones returned
SessionsInHand == {SessionOf(session)} \cup {all_chat_sessions[i] : i \in DOMAIN all_chat_sessions}

\* the step appended a message to the session being built
Appended == session'.messages # session.messages

\* the value is missing, empty or made of whitespace only
BlankValue(v) == ~Truthy(v) \/ (v.k = "str" /\ \A i \in DOMAIN v.s : v.s[i] \in Whitespace)

\* the entry carries an attachment marker: an attachments key or a non-empty files list
CarriesAttachment(e) == e.attachments.k # "absent" \/ Truthy(Get(e, "files"))

\* the roles of the session's messages are user, assistant, assistant
UserAssistantAssistant(s) ==
    /\ Len(s.messages) = 3
    /\ IsUserRole(s.messages[1].role)
    /\ IsAssistantRole(s.messages[2].role)
    /\ IsAssistantRole(s.messages[3].role)

\* C1: chat_count >= user_questions holds of the session after every prefix of the
\* conversation, and of every session returned.
C1_ChatCountAtLeastUserQuestions ==
    \A s \in SessionsInHand : s.chat_count >= s.user_questions

\* C1 witness: a returned session of three messages, with a user question and an
\* assistant message that was counted.
C1_Witness ==
    /\ pc = "returned"
    /\ \E i \in DOMAIN all_chat_sessions :
         LET s == all_chat_sessions[i]
         IN Len(s.messages) = 3 /\ s.user_questions >= 1 /\ s.chat_count > s.user_questions

\* C2 (as claimed): an entry whose resolved role is neither a user nor an assistant
\* indicator is never appended to the session's messages.
C2_UnknownRoleNotAppended ==
    [][(nproc' = nproc + 1 /\ entry'.isdict
            /\ ~IsUserRole(ResolveRole(entry')) /\ ~IsAssistantRole(ResolveRole(entry')))
        => ~Appended]_vars

\* C3: an entry of a user whose content is blank and that carries an attachment marker
\* is kept with the placeholder as its content and counts as one user question.
C3_AttachmentPlaceholder ==
    [][(nproc' = nproc + 1 /\ entry'.isdict
            /\ BlankValue(ResolveContent(entry'))
            /\ CarriesAttachment(entry')
            /\ IsUserRole(ResolveRole(entry')))
        => /\ session'.messages =
                Append(session.messages,
                       [role |-> ResolveRole(entry'), content |-> PyStr(Placeholder)])
           /\ session'.user_questions = session.user_questions + 1]_vars

\* C3 witness: {"role": 1, "content": "", "attachments": ["x.png"]} was processed
\* first and the session holds the placeholder and one user question.
C3_Witness ==
    /\ entry = Entry(PyInt(1), Absent, Absent, PyStr(<<>>), Absent, Absent, PyList(1), Absent)
    /\ nproc = 1
    /\ session.messages = <<[role |-> PyInt(1), content |-> PyStr(Placeholder)]>>
    /\ session.user_questions = 1

\* C7 (as claimed): a returned session whose messages are user, assistant, assistant
\* has chat_count = 3.
C7_ChatCountThree ==
    \A i \in DOMAIN all_chat_sessions :
        UserAssistantAssistant(all_chat_sessions[i]) => all_chat_sessions[i].chat_count = 3

\* C7 (amended): a returned session whose messages are user, assistant, assistant
\* has chat_count = 2: the second assistant message is not counted.
C7_ChatCountTwo ==
    \A i \in DOMAIN all_chat_sessions :
        UserAssistantAssistant(all_chat_sessions[i]) => all_chat_sessions[i].chat_count = 2

\* C7 witness: such a session was returned.
C7_Witness ==
    /\ pc = "returned"
    /\ \E i \in DOMAIN all_chat_sessions : UserAssistantAssistant(all_chat_sessions[i])

\* C8 (as claimed): a kept assistant message adds one to chat_count when the message
\* kept just before it is a user message, and leaves chat_count unchanged otherwise.
C8_AssistantCountedOnlyAfterUser ==
    [][(Appended /\ IsAssistantRole(session'.messages[Len(session'.messages)].role))
        => session'.chat_count =
             session.chat_count +
                (IF /\ session.messages # <<>>
                    /\ IsUserRole(session.messages[Len(session.messages)].role)
                 THEN 1 ELSE 0)]_vars

----------------------------------------------------------------------------
(* Properties of the run (checked under Spec) *)

StateScratchFiles == {p \in ScratchPaths : p[1] = "temp_state" /\ fs[p] # "missing"}

\* C4: once read_chat_history has returned no scratch duplicate of the pass is
\* left, and os.remove is called exactly once for every candidate: not before the
\* finally clause, once when the next candidate starts or the method returns.
C4_ScratchRemovedOnce ==
    /\ pc \in {"read_copy", "export", "exited"} => StateScratchFiles = {}
    /\ pc \in {"read_query", "read_records", "read_finally"} => removes = 0
    /\ (pc = "read_copy" /\ idx > 1) \/ (pc = "export" /\ db_paths # <<>>) => removes = 1

\* C4 witness: the method returned after a second candidate whose query failed,
\* with a session from the first.
C4_Witness ==
    /\ pc = "export"
    /\ idx = 2
    /\ outcome = "query_failed"
    /\ all_chat_sessions # <<>>
    /\ removes = 1

\* C5: every original database file holds what it held when the program started,
\* and neither the open connection nor the path that is copied to and removed is
\* an original database.
C5_OriginalsUntouched ==
    /\ \A p \in OriginalPaths : fs[p] = disk0[p]
    /\ conn \notin OriginalPaths
    /\ temp_db_path \notin OriginalPaths

\* C5 witness: the records of a second candidate are being read through a
\* connection on its scratch duplicate.
C5_Witness ==
    /\ pc = "read_records"
    /\ idx = 2
    /\ conn = StateScratchPath(1)
    /\ fs[conn] = "chat"
    /\ nrec = 2

\* C6 (as claimed): with a valid mode and no session extracted the program reports
\* that there is nothing to export and exits with status 1.
C6_NoSessionsExitsOne ==
    (pc = "exited" /\ argv \in Modes /\ all_chat_sessions = <<>>)
        => (printed = "no chat records" /\ exit_status = 1)

\* C9 (as claimed): every session of the list has a message, and every message of
\* it has non-empty content and a user or assistant role.
C9_SessionsWellFormed ==
    \A i \in DOMAIN all_chat_sessions :
        LET s == all_chat_sessions[i]
        IN /\ s.messages # <<>>
           /\ \A j \in DOMAIN s.messages :
                /\ s.messages[j].content.k = "str"
                /\ s.messages[j].content.s # <<>>
                /\ IsUserRole(s.messages[j].role) \/ IsAssistantRole(s.messages[j].role)

----------------------------------------------------------------------------
(* Properties of the report (checked under SpecRender) *)

\* the classes of the message blocks of the content, in order
RECURSIVE BlockClasses(_)
BlockClasses(content) ==
    IF content = <<>> THEN <<>>
    ELSE [j \in DOMAIN Head(content).blocks |-> Head(content).blocks[j].class]
            \o BlockClasses(Tail(content))

\* a block of its role's class for every user and assistant message, in order
RECURSIVE KnownRoleClasses(_)
KnownRoleClasses(messages) ==
    IF messages = <<>> THEN <<>>
    ELSE (IF IsUserRole(Head(messages).role) THEN <<"user-message">>
          ELSE IF IsAssistantRole(Head(messages).role) THEN <<"assistant-message">>
          ELSE <<>>)
            \o KnownRoleClasses(Tail(messages))

RECURSIVE AllKnownRoleClasses(_)
AllKnownRoleClasses(chat_sessions) ==
    IF chat_sessions = <<>> THEN <<>>
    ELSE KnownRoleClasses(Head(chat_sessions).messages)
            \o AllKnownRoleClasses(Tail(chat_sessions))

\* C10 (as claimed): the transcript of create_html_content holds a user block for
\* every message of a user role and an assistant block for every message of an
\* assistant role, in message order, and omits none of them.
C10_KnownRolesRendered ==
    (pc = "exited" /\ argv \in {"current", "all"} /\ written # <<>>)
        => BlockClasses(written[1].content) =
             AllKnownRoleClasses(IF argv = "all" THEN all_chat_sessions
                                 ELSE <<all_chat_sessions[Len(all_chat_sessions)]>>)

\* the page written by the run
ThePage == written[1]

\* the session the current modes export
LastSession == all_chat_sessions[Len(all_chat_sessions)]

\* C11 (as claimed): in all mode the content is the line of totals, stating the
\* number N of sessions returned, followed by one block for each of the N
\* sessions in list order.
C11_AllModeOneBlockPerSession ==
    (pc = "exited" /\ argv = "all" /\ written # <<>>)
        => LET content == ThePage.content
               N == Len(all_chat_sessions)
           IN /\ content # <<>>
              /\ content[1].kind = "total"
              /\ content[1].sessions = N
              /\ Len(content) = N + 1
              /\ \A i \in 1..N :
                    /\ content[i + 1].kind = "session"
                    /\ content[i + 1].header.title = all_chat_sessions[i].title

HasUserMessage(s) == \E j \in DOMAIN s.messages : IsUserRole(s.messages[j].role)

\* the sum of user_questions over the first n sessions
RECURSIVE QuestionsUpTo(_)
QuestionsUpTo(n) ==
    IF n = 0 THEN 0 ELSE all_chat_sessions[n].user_questions + QuestionsUpTo(n - 1)

\* C12: in summary mode the content is the line of totals, whose question total is
\* the sum of user_questions over all sessions, followed by one block for exactly
\* the sessions that hold a user message, in order; every message of a block is
\* a user message of that session, and none is an assistant message.
C12_SummaryUserMessagesOnly ==
    (pc = "exited" /\ argv = "summary" /\ written # <<>>)
        => LET content == ThePage.content
               expected == SelectSeq(all_chat_sessions, HasUserMessage)
           IN /\ content # <<>>
              /\ content[1].kind = "total"
              /\ content[1].sessions = Len(all_chat_sessions)
              /\ content[1].questions = QuestionsUpTo(Len(all_chat_sessions))
              /\ Len(content) = Len(expected) + 1
              /\ \A i \in 1..Len(expected) :
                    LET e == content[i + 1]
                        s == expected[i]
                    IN /\ e.kind = "session"
                       /\ e.header.title = s.title
                       /\ e.header.count = s.user_questions
                       /\ \A b \in DOMAIN e.blocks :
                            /\ e.blocks[b].class = "user-message"
                            /\ \E j \in DOMAIN s.messages :
                                 /\ IsUserRole(s.messages[j].role)
                                 /\ e.blocks[b].html = ProcessCodeBlocks(s.messages[j].content.s)

\* C12 witness: a summary of two sessions, the first with a user message and the
\* second of the assistant only, holds the totals and the block of the first.
C12_Witness ==
    /\ pc = "exited"
    /\ argv = "summary"
    /\ written # <<>>
    /\ Len(all_chat_sessions) = 2
    /\ HasUserMessage(all_chat_sessions[1])
    /\ \A j \in DOMAIN all_chat_sessions[2].messages :
         IsAssistantRole(all_chat_sessions[2].messages[j].role)
    /\ Len(ThePage.content) = 2
    /\ ThePage.content[2].blocks # <<>>

\* C13 (as claimed): in the current modes the page holds the content of exactly
\* one session, the last of the list: one block, with that session's count and
\* messages of that session only.
C13_CurrentModesLastSession ==
    (pc = "exited" /\ argv \in {"current", "current-summary"} /\ written # <<>>)
        => LET content == ThePage.content
           IN /\ Len(content) = 1
              /\ content[1].kind = "session"
              /\ content[1].header.count =
                    (IF argv = "current" THEN LastSession.chat_count
                     ELSE LastSession.user_questions)
              /\ \A b \in DOMAIN content[1].blocks :
                    \E j \in DOMAIN LastSession.messages :
                        content[1].blocks[b].html =
                            ProcessCodeBlocks(LastSession.messages[j].content.s)

\* the number of places of chars where sub occurs
Occurrences(chars, sub) ==
    Cardinality({i \in 1..(Len(chars) - Len(sub) + 1) : SubSeq(chars, i, i + Len(sub) - 1) = sub})

\* C14 (as claimed): the one-line message of three backquotes, print(1) and three
\* backquotes is rendered as exactly one preformatted block, with no run of three
\* backquotes left.
C14_FencedLineOnePreBlock ==
    (/\ pc = "exited" /\ argv = "current" /\ written # <<>>
     /\ LastSession.messages = <<[role |-> PyInt(1), content |-> PyStr(S_fenced_print)]>>)
        => LET content == ThePage.content
           IN /\ Len(content) = 1
              /\ Len(content[1].blocks) = 1
              /\ Occurrences(content[1].blocks[1].html, S_pre_open) = 1
              /\ Occurrences(content[1].blocks[1].html, S_pre_close) = 1
              /\ Occurrences(content[1].blocks[1].html, S_fence) = 0

\* the session titles a page shows: in its <title> and in its session headers
EmittedTitles(page) ==
    (IF page.title.k = "str" THEN {page.title.s} ELSE {})
        \cup {page.content[i].header.title.s :
                i \in {h \in DOMAIN page.content : page.content[h].header.title.k = "str"}}

\* C15 (as claimed): every session title a page shows is a title of the list with
\* its &, < and > escaped as in message content, and the title of every session
\* that has a block is shown.
C15_TitlesEscaped ==
    (pc = "exited" /\ written # <<>>)
        => /\ \A t \in EmittedTitles(ThePage) :
                \E i \in DOMAIN all_chat_sessions : t = EscapeHtml(all_chat_sessions[i].title.s)
           /\ argv \in {"current", "current-summary"} =>
                EscapeHtml(LastSession.title.s) \in EmittedTitles(ThePage)

----------------------------------------------------------------------------
(* Properties of the invocation, the finder and the failure policy          *)
(* (checked under Spec)                                                     *)

\* C16: an invocation whose argument is not one of the four modes prints the
\* usage and exits with status 1 with the report directory not created, no
\* candidate looked for, no scratch file and no output file; the exporter is
\* constructed for the four modes only.
C16_BadInvocationExitsFirst ==
    /\ (pc = "exited" /\ argv \notin {"current", "all", "summary", "current-summary"})
         => /\ printed = "usage"
            /\ exit_status = 1
            /\ output_dir = FALSE
            /\ db_paths = <<>> /\ todo = <<>>
            /\ conn = <<"unbound", 0>> /\ temp_db_path = <<"unbound", 0>>
            /\ \A p \in ScratchPaths : fs[p] = "missing"
            /\ written = <<>>
    /\ pc \notin {"main", "exited"}
         => argv \in {"current", "all", "summary", "current-summary"}

\* C16 witness: the program was given two arguments and has exited.
C16_Witness ==
    /\ pc = "exited"
    /\ argv = "current extra"
    /\ printed = "usage"
    /\ exit_status = 1

\* C17: when the finder is done the list is the global database alone, no
\* workspace database having been copied, or it holds workspace databases other
\* than the one of images, each once; a workspace database is added exactly when
\* the query of its scratch copy found a record with a matching key.
C17_CandidateList ==
    /\ [](pc = "read" =>
            IF fs[GlobalDb] # "missing"
            THEN /\ db_paths = <<GlobalDb>>
                 /\ temp_db_path = <<"unbound", 0>>
                 /\ conn = <<"unbound", 0>>
            ELSE /\ \A i \in DOMAIN db_paths :
                      \E d \in WorkspaceDirs \ {ImagesDir} : db_paths[i] = WorkspaceDb(d)
                 /\ \A i, j \in DOMAIN db_paths : db_paths[i] = db_paths[j] => i = j)
    /\ [][pc = "find_query" =>
            db_paths' = IF fs[temp_db_path] \in {"chat", "otherkey"}
                        THEN Append(db_paths, WorkspaceDb(Head(todo)))
                        ELSE db_paths]_vars
    /\ [][(pc \in {"find_item", "find_finally"}) => UNCHANGED db_paths]_vars

\* C17 witness: of two workspace databases the first holds no matching record and
\* the list is the second alone, the images directory holding a database too.
C17_Witness ==
    /\ pc = "read"
    /\ disk0[WorkspaceDb(ImagesDir)] = "chat"
    /\ disk0[WorkspaceDb(1)] = "nochat"
    /\ db_paths = <<WorkspaceDb(2)>>

\* s is t or t with sessions appended
IsPrefix(s, t) == Len(s) <= Len(t) /\ SubSeq(t, 1, Len(s)) = s

\* C18: after the check of a workspace database, failed or not, the finder goes on
\* with the directories that remain, and ends only when none remains; after a
\* candidate whose copy or query failed read_chat_history goes on with the next
\* candidate, or returns when it was the last, and the sessions extracted so far
\* are never dropped.
C18_FailedCandidateSkipped ==
    /\ [][pc = "find_finally" =>
            pc' = "find_item" /\ todo' = Tail(todo) /\ UNCHANGED db_paths]_vars
    /\ [][(pc = "find_item" /\ pc' = "read") => todo = <<>>]_vars
    /\ [][(pc = "read_finally" /\ outcome \in {"copy_failed", "query_failed"}) =>
            /\ all_chat_sessions' = all_chat_sessions
            /\ IF idx < Len(db_paths)
               THEN pc' = "read_copy" /\ idx' = idx + 1
               ELSE pc' = "export"]_vars
    /\ [][(pc \in {"read_copy", "read_query", "read_records", "read_finally", "export"}) =>
            IsPrefix(all_chat_sessions, all_chat_sessions')]_vars

\* C18 witness: the copy of the second candidate failed and the method returned
\* the two sessions of the first.
C18_Witness ==
    /\ pc = "export"
    /\ idx = 2
    /\ outcome = "copy_failed"
    /\ Len(all_chat_sessions) = 2

\* C19: a record that raises adds nothing to the list, and the records after it
\* of the same database are still read.
C19_MalformedRecordSkipped ==
    [][(nrec' = nrec + 1 /\ outcome' = "read_malformed") =>
            /\ all_chat_sessions' = all_chat_sessions
            /\ pc' = "read_records"
            /\ idx' = idx
            /\ conn' = conn]_vars

\* C19 witness: the second record of a database raised, after one that gave a
\* session, and the records are still being read.
C19_Witness ==
    /\ pc = "read_records"
    /\ idx = 1
    /\ nrec = 2
    /\ outcome = "read_malformed"
    /\ Len(all_chat_sessions) = 1

\* C20: a run writes at most one output file, after the sessions were read and
\* the mode's content assembled from them: the file holds that whole content;
\* there is no file when no session was extracted.
C20_OneFileAfterAssembly ==
    /\ Len(written) <= 1
    /\ pc # "exited" => written = <<>>
    /\ all_chat_sessions = <<>> => written = <<>>
    /\ written # <<>> =>
         /\ output_file = written[1].name
         /\ printed = "success"
         /\ <<written[1]>> = Export(argv, all_chat_sessions).writes

\* C20 witness: a summary of two sessions was written, to one file.
C20_Witness ==
    /\ pc = "exited"
    /\ argv = "summary"
    /\ Len(all_chat_sessions) = 2
    /\ Len(written) = 1
    /\ Len(written[1].content) >= 2

----------------------------------------------------------------------------
(* Further properties of the normalization, the run and the report *)

\* the value is there and is not empty
NonEmpty(v) == v.k \notin {"absent", "none"} /\ v # PyStr(<<>>) /\ v # PyList(0)

\* the role of the three sources taken in the order role, type, isUser
FirstAvailableRole(e) ==
    IF NonEmpty(e.role) THEN e.role
    ELSE IF NonEmpty(e.type) THEN e.type
    ELSE IF e.isUser = PyBool(TRUE) THEN PyStr(S_user)
    ELSE PyStr(S_assistant)

\* C22: the role of a kept message is the role field of its entry, or else the
\* type field, or else user when isUser is true and assistant when it is false or
\* absent; a source is used only when the ones before it are absent or empty.
C22_RoleResolutionOrder ==
    [][(Appended /\ entry'.isdict)
        => session'.messages[Len(session'.messages)].role = FirstAvailableRole(entry')]_vars

\* C22 witness: an entry with none of the three fields was kept as a message of
\* the assistant.
C22_Witness ==
    /\ entry = Entry(Absent, Absent, Absent, PyStr(S_hi), Absent, Absent, Absent, Absent)
    /\ session.messages # <<>>
    /\ session.messages[Len(session.messages)].role = PyStr(S_assistant)
    /\ nproc = 1

\* the scratch duplicates that exist
ScratchFiles == {p \in ScratchPaths : fs[p] # "missing"}

\* C25: at most one scratch duplicate exists at any point of the run, and none
\* when the finder or read_chat_history turns to its next candidate.
C25_OneScratchAtATime ==
    /\ Cardinality(ScratchFiles) <= 1
    /\ pc \in {"find_item", "read", "read_copy", "export", "exited"} => ScratchFiles = {}

\* C25 witness: the duplicate of the second candidate of the pass exists, after
\* the first gave two sessions, and is the only one.
C25_Witness ==
    /\ pc = "read_query"
    /\ idx = 2
    /\ Len(all_chat_sessions) = 2
    /\ ScratchFiles = {StateScratchPath(2)}

\* C27 (as claimed): every session of the list has a title that is a non-empty
\* string.
C27_TitleNonEmpty ==
    \A i \in DOMAIN all_chat_sessions :
        all_chat_sessions[i].title.k = "str" /\ all_chat_sessions[i].title.s # <<>>

\* the number of blocks of the class
BlocksOfClass(blocks, class) == Cardinality({b \in DOMAIN blocks : blocks[b].class = class})

\* C28 (as claimed): in the summary modes every session block holds as many
\* user-message blocks as the user_questions count of its header, and no other
\* block.
C28_BlocksMatchHeaderCount ==
    (pc = "exited" /\ argv \in {"summary", "current-summary"} /\ written # <<>>)
        => \A i \in DOMAIN ThePage.content :
              ThePage.content[i].kind = "session"
                => /\ BlocksOfClass(ThePage.content[i].blocks, "user-message")
                        = ThePage.content[i].header.count
                   /\ Len(ThePage.content[i].blocks) = ThePage.content[i].header.count

----------------------------------------------------------------------------
(* Properties of process_code_blocks (checked under SpecText) *)

\* the text of the message and what process_code_blocks made of it
TheText == LastSession.messages[1].content.s
TheHtml == ThePage.content[1].blocks[1].html

\* chars starts with sub
StartsWith(chars, sub) == Len(chars) >= Len(sub) /\ SubSeq(chars, 1, Len(sub)) = sub

\* chars without its first n characters
Drop(chars, n) == SubSeq(chars, n + 1, Len(chars))

EmittedTags == {S_pre_open, S_pre_close, S_br}

\* chars without the tags the transform emits
RECURSIVE WithoutTags(_)
WithoutTags(chars) ==
    IF chars = <<>> THEN <<>>
    ELSE IF \E tag \in EmittedTags : StartsWith(chars, tag)
    THEN WithoutTags(Drop(chars, Len(CHOOSE tag \in EmittedTags : StartsWith(chars, tag))))
    ELSE <<Head(chars)>> \o WithoutTags(Tail(chars))

\* the number of places of chars that hold c
CountChar(chars, c) == Cardinality({i \in DOMAIN chars : chars[i] = c})

\* C21 (as claimed): the output holds no < or > beside those of the tags the
\* transform emits, and every & of the input is in the output as &amp;.
C21_OutputEscaped ==
    (pc = "exited" /\ written # <<>>)
        => /\ CountChar(WithoutTags(TheHtml), "<") = 0
           /\ CountChar(WithoutTags(TheHtml), ">") = 0
           /\ Occurrences(TheHtml, S_amp) = CountChar(TheText, "&")

\* the pieces of chars between the occurrences of sep
RECURSIVE SplitOn(_, _)
SplitOn(chars, sep) ==
    IF ~\E i \in 1..(Len(chars) - Len(sep) + 1) : SubSeq(chars, i, i + Len(sep) - 1) = sep
    THEN <<chars>>
    ELSE LET i == CHOOSE j \in 1..(Len(chars) - Len(sep) + 1) :
                    /\ SubSeq(chars, j, j + Len(sep) - 1) = sep
                    /\ \A h \in 1..(j - 1) : SubSeq(chars, h, h + Len(sep) - 1) # sep
         IN <<SubSeq(chars, 1, i - 1)>> \o SplitOn(Drop(chars, i + Len(sep) - 1), sep)

\* the lines of one piece of the output: the piece itself, or the lines inside a
\* preformatted block, each of which ends with a newline
LinesOfPiece(piece) ==
    IF StartsWith(piece, S_pre_open)
    THEN LET body == WithoutTags(piece)
         IN IF body = <<>> THEN <<>>
            ELSE LET ls == SplitLines(body) IN SubSeq(ls, 1, Len(ls) - 1)
    ELSE <<piece>>

RECURSIVE LinesOfPieces(_)
LinesOfPieces(pieces) ==
    IF pieces = <<>> THEN <<>>
    ELSE LinesOfPiece(Head(pieces)) \o LinesOfPieces(Tail(pieces))

\* the lines the output shows, in order
RenderedLines(html) == LinesOfPieces(SplitOn(html, S_br))

\* a line whose trimmed content starts with three backquotes
FenceLine(line) ==
    \E i \in DOMAIN line :
        /\ \A h \in 1..(i - 1) : line[h] \in Whitespace
        /\ i + 2 <= Len(line)
        /\ line[i] = BQ /\ line[i + 1] = BQ /\ line[i + 2] = BQ

NotFenceLine(line) == ~FenceLine(line)

\* the escaped lines of the text that are not fence lines, in order
RECURSIVE EscapedLines(_)
EscapedLines(lines) ==
    IF lines = <<>> THEN <<>>
    ELSE <<EscapeHtml(Head(lines))>> \o EscapedLines(Tail(lines))

ExpectedLines(text) == EscapedLines(SelectSeq(SplitLines(text), NotFenceLine))

\* C24: the lines the output shows, outside and inside preformatted blocks, are
\* the lines of the input that are not fence lines, each once and in input order
\* (an output that is empty shows no line or one empty line).
C24_NonFenceLinesOnceInOrder ==
    (pc = "exited" /\ written # <<>>)
        => \/ RenderedLines(TheHtml) = ExpectedLines(TheText)
           \/ TheHtml = <<>> /\ ExpectedLines(TheText) \in {<<>>, << <<>> >>}

\* C24 witness: a line outside a block, a fence and a line of the block it
\* leaves open were rendered as the line and one preformatted block.
C24_Witness ==
    /\ pc = "exited"
    /\ written # <<>>
    /\ TheText = <<"a", "\n">> \o S_fence \o <<"\n", "<", "&", ">">>
    /\ TheHtml = <<"a">> \o S_br \o S_pre_open \o S_lt \o S_amp \o S_gt \o <<"\n">> \o S_pre_close

----------------------------------------------------------------------------
(* Properties of the workspace locator (checked under SpecWorkspace) *)

\* the walk finds an identifier in one of the directories
WalkYields(dirs) == \E i \in DOMAIN dirs : dirs[i].config = "C" \/ dirs[i].git

\* the identifier of the nearest directory that has one
WalkResult(dirs) ==
    LET i == CHOOSE j \in DOMAIN dirs :
                /\ dirs[j].config = "C" \/ dirs[j].git
                /\ \A h \in 1..(j - 1) : ~(dirs[h].config = "C" \/ dirs[h].git)
    IN IF dirs[i].config = "C" THEN "C" ELSE "hash"

\* C23 (as claimed): the exporter is always constructed, and the identifier is
\* the override of the environment when there is one, or else the stored value
\* of storage.json when the file provides one, or else what the upward walk
\* finds; it is None only when the walk finds nothing either, whatever reading
\* storage.json did.
C23_WorkspaceLocatorFallsThrough ==
    pc = "find" =>
        current_workspace =
            (IF environ = "W" THEN "W"
             ELSE IF storage_json = "S" THEN "S"
             ELSE IF WalkYields(cwd_dirs) THEN WalkResult(cwd_dirs)
             ELSE "None")

----------------------------------------------------------------------------
(* The two variants (checked under SpecRender) *)

\* C26 (as claimed): on the same records and in the same mode the Chinese variant
\* returns sessions with the same roles and counts as the English one and writes
\* to an output file of the same name.
C26_VariantsAgree ==
    pc = "exited" /\ printed # "error" =>
        LET zh == ReadChatHistory_zh(all_chat_sessions)
        IN /\ Len(zh) = Len(all_chat_sessions)
           /\ \A i \in DOMAIN zh :
                /\ zh[i].user_questions = all_chat_sessions[i].user_questions
                /\ zh[i].chat_count = all_chat_sessions[i].chat_count
                /\ Len(zh[i].messages) = Len(all_chat_sessions[i].messages)
                /\ \A j \in DOMAIN zh[i].messages :
                     zh[i].messages[j].role = all_chat_sessions[i].messages[j].role
           /\ output_file = OutputFile_zh(argv, zh)

====
